---- MODULE Spec2Model ----
(***************************************************************************)
(* A model of VanillaWire's reactive core (src/src/core/state.js): the     *)
(* Proxy-based interception layer, the dependency graph STATE_TRACKER, the *)
(* microtask notification scheduler and the effect() lifecycle.            *)
(*                                                                         *)
(* JavaScript is single threaded: a task runs top-level calls one after    *)
(* the other; the flush that notify() handed to queueMicrotask runs once   *)
(* the task has ended and runs to completion before the next task.  The    *)
(* variable phase records where the event loop is.                         *)
(***************************************************************************)
EXTENDS Integers, Sequences, FiniteSets, TLC

\* ---------------------------------------------------------------- bounds
MaxEffects == 2      \* effect() is called at most this many times
MaxVal == 1          \* primitive property values are 0..MaxVal
MaxDepth == 1        \* records nest MaxDepth levels below the root
MaxProxies == 2      \* wrappers that a structured write stores in the heap
MaxReads == 2        \* wrappers a caller reads and keeps for comparison
MaxLen == 3          \* a sequence holds at most this many items
MaxPush == 2         \* push is called with at most this many items

Vals == 0..MaxVal
Keys == {"b", "c"}                 \* the primitive properties of every record
Raws == 0..MaxDepth                \* record i sits i levels below the root
NoKey == "none"                    \* a callback that writes nothing
Null == 0                          \* CURRENT_EFFECT = null (effects are 1, 2, ...)
NotRead == 0 - 1                   \* a key the callback does not read
Undefined == "undefined"

SeqD == 0 - 1                      \* the d of a callback that reads the sequence
Absent == 0 - 2                    \* what an index at or past length reads as
Digits == <<"0", "1", "2", "3", "4", "5", "6", "7", "8", "9">>
IdxKey(i) == Digits[i + 1]         \* i.toString()
ArrKeys == {IdxKey(i) : i \in 0..(MaxLen - 1)} \cup {"length"}
AllKeys == Keys \cup ArrKeys

Raw(i) == <<"raw", i>>
ArrRef == Raw(SeqD)                \* the array given to createState
Prx(j) == <<"proxy", j>>

VARIABLES
    arr,             \* the items of the array
    vals,            \* vals[i][k]: the primitive stored under key k of record i
    child,           \* child[i]: the value stored under key "n" of record i
    PROXY_TARGET,    \* the wrappers stored in the heap: PROXY_TARGET[j] is the
                     \* [[ProxyTarget]] of wrapper j
    STATE_TRACKER,   \* edges <<target, key, effect>>
    CURRENT_EFFECT,
    EFFECT_REGISTRY,
    NOTIFICATION_QUEUE,          \* a Set in insertion order
    NOTIFICATION_FLUSH_PENDING,
    microtasks,      \* flush callbacks handed to queueMicrotask, not yet run
    phase,           \* "task", or "flush": the flush callback is running
    flushPos,        \* elements of NOTIFICATION_QUEUE the forEach has visited
    fns,             \* fns[e]: the callback given to the e-th effect() call
    \* ---- observations of the run (what a test of the library would record)
    seen,            \* seen[e][k]: what e read under k when the flush ran it
    ranInFlush,      \* ranInFlush[e]: invocations of e by the running flush
    due,             \* <<e, record, key>>: since the last flush a call stored
                     \* another value under a property that fn e reads
    gone,            \* effects disposed of while they were not pending
    enqueuedInFlush, \* effects added to the queue while the flush was running
    thrownInFlush,   \* callbacks that threw during the running flush
    consoleErrors,   \* console.error calls of the running flush
    held             \* wrappers a caller got from reading one nested property

progVars == <<arr, vals, child, PROXY_TARGET, STATE_TRACKER, CURRENT_EFFECT,
              EFFECT_REGISTRY, NOTIFICATION_QUEUE, NOTIFICATION_FLUSH_PENDING,
              microtasks, phase, flushPos, fns>>
obsVars == <<seen, ranInFlush, due, gone, enqueuedInFlush, thrownInFlush,
             consoleErrors, held>>
vars == <<progVars, obsVars>>

\* ------------------------------------------------------- the mutable store
\* The operators below are written over a record of the program's mutable
\* state, so that one call can thread it through the traps it runs.
Store ==
    [arr |-> arr, vals |-> vals, child |-> child, proxies |-> PROXY_TARGET,
     tracker |-> STATE_TRACKER, cur |-> CURRENT_EFFECT,
     queue |-> NOTIFICATION_QUEUE, pending |-> NOTIFICATION_FLUSH_PENDING,
     micro |-> microtasks, added |-> {}, calls |-> 0]
\* added: the effects the call's notify() put into the queue;
\* calls: how many times the call ran notify().

InSeq(q, x) == \E i \in 1..Len(q) : q[i] = x

RECURSIVE AddAll(_, _)
\* deps.forEach(effect => NOTIFICATION_QUEUE.add(effect)): a Set keeps the
\* first insertion of an element; deps iterates in insertion order, which is
\* the order of the effect() calls.
AddAll(q, deps) ==
    IF deps = {} THEN q
    ELSE LET e == CHOOSE x \in deps : \A y \in deps : x <= y
         IN AddAll(IF InSeq(q, e) THEN q ELSE Append(q, e), deps \ {e})

RECURSIVE Chain(_, _)
\* ref, its [[ProxyTarget]], and so on down to the raw record.
Chain(proxies, ref) ==
    IF ref[1] = "raw" THEN <<ref>>
    ELSE <<ref>> \o Chain(proxies, proxies[ref[2]])

ChainSet(proxies, ref) ==
    LET c == Chain(proxies, ref) IN {c[i] : i \in 1..Len(c)}
RawOf(proxies, ref) ==
    LET c == Chain(proxies, ref) IN c[Len(c)][2]
Layers(proxies, ref) == Len(Chain(proxies, ref)) - 1

\* new Proxy(target, handler): a wrapper of its own identity, every call.
CreateProxy(proxies, target) ==
    [proxies |-> Append(proxies, target), ref |-> Prx(Len(proxies) + 1)]

RECURSIVE Wrap(_, _, _)
\* n nested traps each return createProxy(value) of what the inner one returned.
Wrap(proxies, ref, n) ==
    IF n = 0 THEN [proxies |-> proxies, ref |-> ref]
    ELSE LET p == CreateProxy(proxies, ref) IN Wrap(p.proxies, p.ref, n - 1)

\* track(target, key): keyDeps.add(CURRENT_EFFECT).
Track(S, target, key) ==
    [S EXCEPT !.tracker = @ \cup {<<target, key, S.cur>>}]

Deps(S, target, key) == {t[3] : t \in {u \in S.tracker : u[1] = target /\ u[2] = key}}

\* Notify with the pending set kept as a list: an effect is added once per
\* notification.
NotifyDup(S, target, key) ==
    LET deps == Deps(S, target, key)
        S1 == [S EXCEPT !.queue = AddAll(<<>>, deps) \o S.queue,
                        !.added = @ \cup deps,
                        !.calls = @ + 1]
    IN IF ~S1.pending
       THEN [S1 EXCEPT !.pending = TRUE, !.micro = @ + 1]
       ELSE S1

\* Notify with a pending set that takes an effect again when it is already a
\* member: the effect goes to the end of the iteration order a second time.
NotifyAgain(S, target, key) ==
    LET deps == Deps(S, target, key)
        S1 == [S EXCEPT !.queue = @ \o AddAll(<<>>, deps),
                        !.added = @ \cup deps,
                        !.calls = @ + 1]
    IN IF ~S1.pending
       THEN [S1 EXCEPT !.pending = TRUE, !.micro = @ + 1]
       ELSE S1

\* Notify without the NOTIFICATION_FLUSH_PENDING test: every call hands a
\* callback to queueMicrotask.
NotifyAlways(S, target, key) ==
    LET deps == Deps(S, target, key)
    IN [S EXCEPT !.queue = AddAll(S.queue, deps),
                 !.added = @ \cup {e \in deps : ~InSeq(S.queue, e)},
                 !.calls = @ + 1,
                 !.pending = TRUE,
                 !.micro = @ + 1]

\* Notify that hands the callback to queueMicrotask and leaves
\* NOTIFICATION_FLUSH_PENDING as it was.
NotifyUnflagged(S, target, key) ==
    LET deps == Deps(S, target, key)
        S1 == [S EXCEPT !.queue = AddAll(S.queue, deps),
                        !.added = @ \cup {e \in deps : ~InSeq(S.queue, e)},
                        !.calls = @ + 1]
    IN IF ~S1.pending THEN [S1 EXCEPT !.micro = @ + 1] ELSE S1

\* notify(target, key), up to the queueMicrotask call.
Notify(S, target, key) ==
    LET deps == Deps(S, target, key)
        q == AddAll(S.queue, deps)
        S1 == [S EXCEPT !.queue = q,
                        !.added = @ \cup {e \in deps : ~InSeq(S.queue, e)},
                        !.calls = @ + 1]
    IN IF ~S1.pending
       THEN [S1 EXCEPT !.pending = TRUE, !.micro = @ + 1]
       ELSE S1

RECURSIVE NotifyEach(_, _, _)
\* notify(target, key) for the targets of a sequence, in its order.
NotifyEach(S, targets, key) ==
    IF targets = <<>> THEN S
    ELSE NotifyEach(Notify(S, Head(targets), key), Tail(targets), key)

Reverse(q) == [i \in 1..Len(q) |-> q[Len(q) + 1 - i]]

\* ------------------------------------------------------- interception layer
\* A view is what the caller holds after `state.n.n...`: wrappers that nobody
\* else references (tl of them, one inside the other) around the value t that
\* is stored in the heap.  Edges that track() files under such an unreferenced
\* wrapper can never be notified and the WeakMap drops them; they are left out.
RootView == [t |-> Raw(0), tl |-> 1]

\* GetTrack filing the effect under every key of the object that was read.
GetTrackWide(S, view, key) ==
    IF S.cur = Null THEN S
    ELSE [S EXCEPT !.tracker =
            @ \cup {<<x, k, S.cur>> : x \in ChainSet(S.proxies, view.t),
                                      k \in AllKeys \cup {"n"}}]

\* The get traps that run for view[key], outermost first, each calling
\* track(obj, key) when CURRENT_EFFECT is set.
GetTrack(S, view, key) ==
    IF S.cur = Null THEN S
    ELSE [S EXCEPT !.tracker =
            @ \cup {<<x, key, S.cur>> : x \in ChainSet(S.proxies, view.t)}]

\* view.n for a record value: every trap on the way wraps what it got.
Hop(S, view) ==
    [S |-> GetTrack(S, view, "n"),
     view |-> [t |-> S.child[RawOf(S.proxies, view.t)],
               tl |-> view.tl + Layers(S.proxies, view.t)]]

RECURSIVE ReadPath(_, _)
\* state.n.n...n with d hops.
ReadPath(S, d) ==
    IF d = 0 THEN [S |-> S, view |-> RootView]
    ELSE LET r == ReadPath(S, d - 1) IN Hop(r.S, r.view)

\* The set traps that run for `view[key] = v` with v a primitive: each trap
\* reads oldValue = obj[key] (through the get traps of the wrappers below it),
\* calls Reflect.set, and notifies when oldValue !== value; the innermost trap
\* (obj the raw record) finishes first.
SetPrim(S, view, key, v) ==
    LET r == RawOf(S.proxies, view.t)
        old == S.vals[r][key]
        below == IF view.tl = 1 THEN ChainSet(S.proxies, view.t) \ {view.t}
                 ELSE ChainSet(S.proxies, view.t)
        S1 == IF S.cur = Null THEN S
              ELSE [S EXCEPT !.tracker = @ \cup {<<x, key, S.cur>> : x \in below}]
        S2 == [S1 EXCEPT !.vals[r][key] = v]
    IN IF old # v
       THEN NotifyEach(S2, Reverse(Chain(S.proxies, view.t)), key)
       ELSE S2

\* `view.n = view.n`: the value read is a record, so the traps of the read wrap
\* it, and every set trap wraps it again (value = createProxy(value)) before
\* comparing it with oldValue; the comparison is between two different
\* objects at every trap.
SetSelf(S, view) ==
    LET r == RawOf(S.proxies, view.t)
        n == view.tl + Layers(S.proxies, view.t)
        S1 == GetTrack(S, view, "n")
        w == Wrap(S1.proxies, S1.child[r], 2 * n)
        S2 == [S1 EXCEPT !.proxies = w.proxies, !.child[r] = w.ref]
    IN NotifyEach(S2, Reverse(Chain(S.proxies, view.t)), "n")

\* ------------------------------------------------------------ computations
\* The callbacks given to effect(): fn reads the keys `reads` of state.n...n
\* (d hops), then throws, or writes 1 to key w of the same record, or returns.
\* With cond, fn is `() => { if (state.b) state.c }`: it reads c when it has
\* read 1 under b.  With nest non-empty, fn calls effect(inner) after its
\* reads, inner reading the keys nest, and reads the keys post afterwards.
WriteKeys == {"c"}
Fns ==
    {f \in [d : 0..MaxDepth, reads : SUBSET Keys \ {{}},
            throws : BOOLEAN, w : WriteKeys \cup {NoKey}, cond : {FALSE},
            nest : {{}}, post : {{}}] :
        f.throws => f.w = NoKey}
\* callbacks over the root record, and callbacks that read one property
\* callbacks that read up to two keys of the sequence
SeqFns ==
    {f \in [d : {SeqD}, reads : SUBSET ArrKeys, throws : {FALSE}, w : {NoKey},
            cond : {FALSE}, nest : {{}}, post : {{}}] :
        Cardinality(f.reads) \in 1..2}
FlatFns == {f \in Fns : f.d = 0}
PathFns == {f \in Fns : ~f.throws /\ f.w = NoKey /\ Cardinality(f.reads) = 1}
\* callbacks that read b, and c in the branch taken when b is 1
CondFns ==
    [d : {0}, reads : {{"b"}}, throws : {FALSE}, w : {NoKey}, cond : BOOLEAN,
     nest : {{}}, post : {{}}]
\* callbacks that register an effect of their own
NestFns ==
    [d : {0}, reads : SUBSET Keys, throws : {FALSE}, w : {NoKey}, cond : {FALSE},
     nest : SUBSET Keys \ {{}}, post : SUBSET Keys]
\* the callback that f gives to effect()
Inner(f) ==
    [d |-> 0, reads |-> f.nest, throws |-> FALSE, w |-> NoKey, cond |-> FALSE,
     nest |-> {}, post |-> {}]
\* effect() calls that one run of f makes
Nested(f) == IF f.nest # {} THEN <<Inner(f)>> ELSE <<>>

\* The keys this run of fn reads, the record holding vs.
ReadsOf(f, vs) ==
    IF f.cond /\ vs["b"] = 1 THEN f.reads \cup {"c"} ELSE f.reads

RECURSIVE GetKeys(_, _, _)
\* view[k] for every k of keys.
GetKeys(S, view, keys) ==
    IF keys = {} THEN S
    ELSE LET k == CHOOSE x \in keys : TRUE
         IN GetKeys(GetTrack(S, view, k), view, keys \ {k})

\* obj[key] of the raw array.
ArrGet(a, key) ==
    IF key = "length" THEN Len(a)
    ELSE LET i == CHOOSE x \in 0..(MaxLen - 1) : IdxKey(x) = key
         IN IF i < Len(a) THEN a[i + 1] ELSE Absent

\* A stacked current-effect slot: the inner effect() puts the outer effect
\* back when it returns.
RestoreOuter(outer) == outer
\* `CURRENT_EFFECT = null` at the end of effect(), whoever called it.
AfterEffect(outer) == Null

\* effect(inner) called by a running fn: inner becomes effect number i, its
\* reads are tracked under i, and the slot is reset.
InnerEffect(S, view, f, i) ==
    IF f.nest = {} THEN S
    ELSE [GetKeys([S EXCEPT !.cur = i], view, f.nest) EXCEPT !.cur = AfterEffect(S.cur)]

\* fn(): the store after the call, what it read, and whether it threw.  The
\* effect that fn registers is number Len(fns) + 1, or Len(fns) + 2 when fn
\* runs inside its own effect() call, which has registered it already.
RunFn(S, f, rerun) ==
    IF f.d = SeqD
    THEN [S |-> GetKeys(S, [t |-> ArrRef, tl |-> 1], f.reads),
          read |-> [k \in AllKeys |->
                      IF k \in f.reads THEN ArrGet(S.arr, k) ELSE NotRead],
          raised |-> FALSE,
          threw |-> FALSE]
    ELSE
    LET p == ReadPath(S, f.d)
        r == RawOf(S.proxies, p.view.t)
        keys == ReadsOf(f, S.vals[r])
        S0 == GetKeys(p.S, p.view, keys)
        Si == InnerEffect(S0, p.view, f, IF rerun THEN Len(fns) + 1 ELSE Len(fns) + 2)
        S1 == GetKeys(Si, p.view, f.post)
        read == [k \in AllKeys |->
                    IF k \in keys \cup f.post THEN S.vals[r][k] ELSE NotRead]
        threw == f.throws
    IN [S |-> IF ~threw /\ f.w # NoKey THEN SetPrim(S1, p.view, f.w, 1) ELSE S1,
        read |-> read,
        raised |-> threw,      \* fn threw
        threw |-> threw]       \* the exception leaves the call

\* wrappedFn without its try/catch: what fn throws leaves the call.
WrappedFnRethrow(S, f, rerun) == RunFn(S, f, rerun)

\* wrappedFn: try { fn() } catch (e) { }: nothing leaves it.
WrappedFn(S, f, rerun) ==
    [RunFn(S, f, rerun) EXCEPT !.threw = FALSE]

\* cleanup(fn) calls STATE_TRACKER.forEach, and STATE_TRACKER is a WeakMap:
\* a WeakMap has no forEach, the call throws a TypeError before any dependent
\* set is touched.
Cleanup(tracker, e) == [tracker |-> tracker, threw |-> TRUE]

\* The flush callback's try { effect() } catch (e) { console.error(..) }
\* around one element: what it reports, and where the forEach goes next.
Reported(r) == IF r.threw THEN 1 ELSE 0
\* ForEachNext with no try/catch on the way: a throw ends the forEach.
ForEachAbort(pos, r) == IF r.raised THEN pos + MaxEffects + 1 ELSE pos + 1
ForEachNext(pos, r) == pos + 1

\* ------------------------------------------------------------------ state
NoReads == [table |-> <<>>, reads |-> <<>>]
NoRuns == [e \in 1..MaxEffects |-> 0]
NothingSeen == [e \in 1..MaxEffects |-> [k \in AllKeys |-> NotRead]]

Init ==
    /\ arr = <<>>
    /\ vals = [i \in Raws |-> [k \in Keys |-> 0]]
    /\ child = [i \in Raws |-> IF i < MaxDepth THEN Raw(i + 1) ELSE Undefined]
    /\ PROXY_TARGET = <<>>
    /\ STATE_TRACKER = {}
    /\ CURRENT_EFFECT = Null
    /\ EFFECT_REGISTRY = {}
    /\ NOTIFICATION_QUEUE = <<>>
    /\ NOTIFICATION_FLUSH_PENDING = FALSE
    /\ microtasks = 0
    /\ phase = "task"
    /\ flushPos = 0
    /\ fns = <<>>
    /\ seen = NothingSeen
    /\ ranInFlush = NoRuns
    /\ due = {}
    /\ gone = {}
    /\ enqueuedInFlush = {}
    /\ thrownInFlush = 0
    /\ consoleErrors = 0
    /\ held = NoReads

\* What a top-level call leaves in the program's variables.
Commit(S) ==
    /\ arr' = S.arr
    /\ vals' = S.vals
    /\ child' = S.child
    /\ PROXY_TARGET' = S.proxies
    /\ STATE_TRACKER' = S.tracker
    /\ NOTIFICATION_QUEUE' = S.queue
    /\ NOTIFICATION_FLUSH_PENDING' = S.pending
    /\ microtasks' = S.micro

\* A call made by the running task: the flush callback is not running.
InTask == phase = "task"

\* The properties under which a call stored another value, S being the store
\* it leaves.
Changes(S) ==
    {x \in Raws \X Keys : S.vals[x[1]][x[2]] # vals[x[1]][x[2]]}
    \cup {<<i, "n">> : i \in {x \in Raws : S.child[x] # child[x]}}
    \cup {<<SeqD, k>> : k \in {x \in ArrKeys : ArrGet(S.arr, x) # ArrGet(arr, x)}}
\* fn f reads key k of record i, or passes through it on its way.
OnPath(f, i, k) == (i = f.d /\ k \in f.reads) \/ (0 <= i /\ i < f.d /\ k = "n")
Due(S, fs) ==
    LET ch == Changes(S)
        hit == {y \in (1..Len(fs)) \X ch : OnPath(fs[y[1]], y[2][1], y[2][2])}
    IN due \cup {<<y[1], y[2][1], y[2][2]>> : y \in hit}

\* state.n...n[k] = v at top level.
SetProp(d, k, v) ==
    /\ InTask
    /\ LET p == ReadPath(Store, d)
           S == SetPrim(p.S, p.view, k, v)
       IN /\ Commit(S)
          /\ due' = Due(S, fns)
    /\ held' = NoReads
    /\ UNCHANGED <<CURRENT_EFFECT, EFFECT_REGISTRY, phase, flushPos, fns, seen, gone,
                   ranInFlush, enqueuedInFlush, thrownInFlush, consoleErrors>>

\* state.n...n.n = state.n...n.n at top level: a record is written where it
\* already is.
SelfAssign(d) ==
    /\ InTask
    /\ d < MaxDepth
    /\ LET p == ReadPath(Store, d)
           n == p.view.tl + Layers(PROXY_TARGET, p.view.t)
       IN /\ Len(PROXY_TARGET) + 2 * n <= MaxProxies
          /\ LET S == SetSelf(p.S, p.view)
             IN /\ Commit(S)
                /\ due' = Due(S, fns)
    /\ held' = NoReads
    /\ UNCHANGED <<CURRENT_EFFECT, EFFECT_REGISTRY, phase, flushPos, fns, seen, gone,
                   ranInFlush, enqueuedInFlush, thrownInFlush, consoleErrors>>

\* w = state.n...n at top level, the caller keeping w.
ReadNested(d) ==
    /\ InTask
    /\ d >= 1
    /\ Len(held.reads) < MaxReads
    /\ LET p == ReadPath(Store, d - 1)
           h == Hop(p.S, p.view)
           w == Wrap(PROXY_TARGET \o held.table, h.view.t, h.view.tl)
       IN held' = [table |-> SubSeq(w.proxies, Len(PROXY_TARGET) + 1, Len(w.proxies)),
                   reads |-> Append(held.reads, [d |-> d, ref |-> w.ref])]
    /\ UNCHANGED <<progVars, seen, ranInFlush, due, gone,
                   enqueuedInFlush, thrownInFlush, consoleErrors>>

\* effect(fn) at top level.  `CURRENT_EFFECT = null` follows the wrappedFn()
\* call and is reached when that call returns.
Effect(f) ==
    /\ InTask
    /\ Len(fns) + 1 + Len(Nested(f)) <= MaxEffects
    /\ LET e == Len(fns) + 1
           r == WrappedFn([Store EXCEPT !.cur = e], f, FALSE)
           fs == Append(fns, f) \o Nested(f)
       IN /\ Commit(r.S)
          /\ EFFECT_REGISTRY' = EFFECT_REGISTRY \cup (e..Len(fs))
          /\ fns' = fs
          /\ due' = Due(r.S, fs)
          /\ CURRENT_EFFECT' = IF r.threw THEN e ELSE Null
    /\ held' = NoReads
    /\ UNCHANGED <<phase, flushPos, seen, ranInFlush, gone, enqueuedInFlush,
                   thrownInFlush, consoleErrors>>

\* The disposer effect() returned for e, called at top level:
\* EFFECT_REGISTRY.delete(wrappedFn); cleanup(wrappedFn).
Dispose(e) ==
    /\ InTask
    /\ e \in 1..Len(fns)
    /\ EFFECT_REGISTRY' = EFFECT_REGISTRY \ {e}
    /\ STATE_TRACKER' = Cleanup(STATE_TRACKER, e).tracker
    /\ gone' = IF InSeq(NOTIFICATION_QUEUE, e) THEN gone ELSE gone \cup {e}
    /\ held' = NoReads
    /\ UNCHANGED <<arr, vals, child, PROXY_TARGET, CURRENT_EFFECT, NOTIFICATION_QUEUE,
                   NOTIFICATION_FLUSH_PENDING, microtasks, phase, flushPos, fns,
                   seen, ranInFlush, due, enqueuedInFlush, thrownInFlush,
                   consoleErrors>>

\* ------------------------------------------------------ sequence mutations
\* arrayHandlers[key] exists for push and shift, so the get trap returns
\*   (...args) => { result = Array.prototype[key].apply(obj, args);
\*                  arrayHandlers[key](obj); return result }
\* and createArrayMethodWrapper is not reached for them.
PushHandler(S) == Notify(S, ArrRef, "length")
ShiftHandler(S) == Notify(Notify(S, ArrRef, "length"), ArrRef, "0")
\* splice has an entry in arrayHandlers too.
SpliceHandler(S) == Notify(S, ArrRef, "length")

\* Array.prototype.splice: a with dc items from index start replaced by items.
Spliced(a, start, dc, items) ==
    SubSeq(a, 1, start) \o items \o SubSeq(a, start + dc + 1, Len(a))

RECURSIVE NotifyIndices(_, _, _)
\* for (let i = from; i < to; i++) notify(target, i.toString())
NotifyIndices(S, from, to) ==
    IF from >= to THEN S
    ELSE NotifyIndices(Notify(S, ArrRef, IdxKey(from)), from + 1, to)

\* A method with no entry in arrayHandlers (map, forEach, filter, indexOf,
\* slice, join, ...) is returned as createArrayMethodWrapper(obj, key,
\* obj[key]); after original.apply(target, args) its switch takes the default
\* case.
MethodWrapperDefault(S) ==
    NotifyIndices(Notify(S, ArrRef, "length"), 0, Len(S.arr))

PushArgs == UNION {[1..n -> Vals] : n \in 1..MaxPush}
SpliceArgs == PushArgs \cup {<<>>}

\* state.push(...items) at top level.
Push(items) ==
    /\ InTask
    /\ Len(arr) + Len(items) <= MaxLen
    /\ LET S == PushHandler([Store EXCEPT !.arr = arr \o items])
       IN /\ Commit(S)
          /\ due' = Due(S, fns)
    /\ held' = NoReads
    /\ UNCHANGED <<CURRENT_EFFECT, EFFECT_REGISTRY, phase, flushPos, fns, seen, gone,
                   ranInFlush, enqueuedInFlush, thrownInFlush, consoleErrors>>

\* state.shift() at top level.
Shift ==
    /\ InTask
    /\ LET S == ShiftHandler([Store EXCEPT !.arr = IF arr = <<>> THEN arr ELSE Tail(arr)])
       IN /\ Commit(S)
          /\ due' = Due(S, fns)
    /\ held' = NoReads
    /\ UNCHANGED <<CURRENT_EFFECT, EFFECT_REGISTRY, phase, flushPos, fns, seen, gone,
                   ranInFlush, enqueuedInFlush, thrownInFlush, consoleErrors>>

\* state.splice(start, dc, ...items) at top level, start and dc within the
\* array.
Splice(start, dc, items) ==
    /\ InTask
    /\ start \in 0..Len(arr)
    /\ dc \in 0..(Len(arr) - start)
    /\ Len(arr) - dc + Len(items) <= MaxLen
    /\ LET S == SpliceHandler([Store EXCEPT !.arr = Spliced(arr, start, dc, items)])
       IN /\ Commit(S)
          /\ due' = Due(S, fns)
    /\ held' = NoReads
    /\ UNCHANGED <<CURRENT_EFFECT, EFFECT_REGISTRY, phase, flushPos, fns, seen, gone,
                   ranInFlush, enqueuedInFlush, thrownInFlush, consoleErrors>>

\* state.indexOf(x), state.slice(), state.join(), state.map(f), ... at top
\* level: the method reads the raw array and changes nothing in it.
ReadOnlyCall ==
    /\ InTask
    /\ LET S == MethodWrapperDefault(Store)
       IN /\ Commit(S)
          /\ due' = Due(S, fns)
    /\ held' = NoReads
    /\ UNCHANGED <<CURRENT_EFFECT, EFFECT_REGISTRY, phase, flushPos, fns, seen, gone,
                   ranInFlush, enqueuedInFlush, thrownInFlush, consoleErrors>>

\* The task ends and the event loop runs the queued flush callback.
FlushBegin ==
    /\ InTask
    /\ microtasks > 0
    /\ microtasks' = microtasks - 1
    /\ phase' = "flush"
    /\ flushPos' = 0
    /\ held' = NoReads
    /\ UNCHANGED <<arr, vals, child, PROXY_TARGET, STATE_TRACKER, CURRENT_EFFECT,
                   EFFECT_REGISTRY, NOTIFICATION_QUEUE, NOTIFICATION_FLUSH_PENDING,
                   fns, seen, ranInFlush, due, gone, enqueuedInFlush,
                   thrownInFlush, consoleErrors>>

\* One turn of NOTIFICATION_QUEUE.forEach: the next element of the Set in
\* insertion order, elements added during the iteration included.
FlushStep ==
    /\ phase = "flush"
    /\ flushPos < Len(NOTIFICATION_QUEUE)
    /\ LET e == NOTIFICATION_QUEUE[flushPos + 1]
           r == WrappedFn(Store, fns[e], TRUE)
           fs == fns \o Nested(fns[e])
       IN /\ Len(fs) <= MaxEffects
          /\ fns' = fs
          /\ EFFECT_REGISTRY' = EFFECT_REGISTRY \cup ((Len(fns) + 1)..Len(fs))
          /\ Commit(r.S)
          /\ ranInFlush' = [ranInFlush EXCEPT ![e] = @ + 1]
          /\ seen' = [seen EXCEPT ![e] = r.read]
          /\ enqueuedInFlush' = enqueuedInFlush \cup r.S.added
          /\ thrownInFlush' = thrownInFlush + (IF r.raised THEN 1 ELSE 0)
          /\ consoleErrors' = consoleErrors + Reported(r)
          /\ flushPos' = ForEachNext(flushPos, r)
    /\ UNCHANGED <<CURRENT_EFFECT, phase, due, gone, held>>

\* The forEach has returned and the callback has not yet cleared the queue.
FlushDone == phase = "flush" /\ flushPos >= Len(NOTIFICATION_QUEUE)

\* The forEach is over: NOTIFICATION_QUEUE.clear(), the flag is reset, the
\* callback returns and the next task may run.
FlushEnd ==
    /\ FlushDone
    /\ NOTIFICATION_QUEUE' = <<>>
    /\ NOTIFICATION_FLUSH_PENDING' = FALSE
    /\ phase' = "task"
    /\ seen' = NothingSeen
    /\ ranInFlush' = NoRuns
    /\ due' = {}
    /\ enqueuedInFlush' = {}
    /\ thrownInFlush' = 0
    /\ consoleErrors' = 0
    /\ UNCHANGED <<arr, vals, child, PROXY_TARGET, STATE_TRACKER, CURRENT_EFFECT,
                   EFFECT_REGISTRY, microtasks, flushPos, fns, gone, held>>

\* The scheduler and the lifecycle, over the root record.
Next ==
    \/ \E k \in Keys, v \in Vals : SetProp(0, k, v)
    \/ \E f \in FlatFns : Effect(f)
    \/ \E e \in 1..MaxEffects : Dispose(e)
    \/ FlushBegin
    \/ FlushStep
    \/ FlushEnd

Spec == Init /\ [][Next]_vars

\* The interception layer, over nested records.
NextDeep ==
    \/ \E d \in 0..MaxDepth, k \in Keys, v \in Vals : SetProp(d, k, v)
    \/ \E d \in 0..MaxDepth : SelfAssign(d)
    \/ \E f \in PathFns : Effect(f)
    \/ FlushBegin
    \/ FlushStep
    \/ FlushEnd

SpecDeep == Init /\ [][NextDeep]_vars

\* A reactive sequence: createState(array) for any array of the bounds.
InitSeq ==
    /\ arr \in UNION {[1..n -> Vals] : n \in 0..MaxLen}
    /\ vals = [i \in Raws |-> [k \in Keys |-> 0]]
    /\ child = [i \in Raws |-> IF i < MaxDepth THEN Raw(i + 1) ELSE Undefined]
    /\ PROXY_TARGET = <<>>
    /\ STATE_TRACKER = {}
    /\ CURRENT_EFFECT = Null
    /\ EFFECT_REGISTRY = {}
    /\ NOTIFICATION_QUEUE = <<>>
    /\ NOTIFICATION_FLUSH_PENDING = FALSE
    /\ microtasks = 0
    /\ phase = "task"
    /\ flushPos = 0
    /\ fns = <<>>
    /\ seen = NothingSeen
    /\ ranInFlush = NoRuns
    /\ due = {}
    /\ gone = {}
    /\ enqueuedInFlush = {}
    /\ thrownInFlush = 0
    /\ consoleErrors = 0
    /\ held = NoReads

NextSeq ==
    \/ \E items \in PushArgs : Push(items)
    \/ Shift
    \/ ReadOnlyCall
    \/ \E f \in SeqFns : Effect(f)
    \/ FlushBegin
    \/ FlushStep
    \/ FlushEnd

SpecSeq == InitSeq /\ [][NextSeq]_vars

\* A reactive sequence changed by splice alone.
NextSplice ==
    \/ \E start, dc \in 0..MaxLen, items \in SpliceArgs : Splice(start, dc, items)
    \/ \E f \in SeqFns : Effect(f)
    \/ FlushBegin
    \/ FlushStep
    \/ FlushEnd

SpecSplice == InitSeq /\ [][NextSplice]_vars

\* Effects whose callback registers an effect, over the root record.
NextNest ==
    \/ \E k \in Keys, v \in Vals : SetProp(0, k, v)
    \/ \E f \in NestFns : Effect(f)
    \/ FlushBegin
    \/ FlushStep
    \/ FlushEnd

SpecNest == Init /\ [][NextNest]_vars

\* A caller that reads and writes nested records and registers no effect.
NextWrap ==
    \/ \E d \in 0..MaxDepth, k \in Keys, v \in Vals : SetProp(d, k, v)
    \/ \E d \in 0..MaxDepth : SelfAssign(d)
    \/ \E d \in 0..MaxDepth : ReadNested(d)
    \/ FlushBegin
    \/ FlushEnd

SpecWrap == Init /\ [][NextWrap]_vars

\* Effects with a conditional read, over the root record.
NextCond ==
    \/ \E k \in Keys, v \in Vals : SetProp(0, k, v)
    \/ \E f \in CondFns : Effect(f)
    \/ FlushBegin
    \/ FlushStep
    \/ FlushEnd

SpecCond == Init /\ [][NextCond]_vars

\* ------------------------------------------------------------------ claims
DuePropsOf(e) == {<<x[2], x[3]>> : x \in {y \in due : y[1] = e}}
Registered == 1..Len(fns)

\* C1: an effect that reads two or more properties which a burst changed is
\* run exactly once by the flush that follows, and no other flush is queued.
BatchDedup ==
    FlushDone =>
        \A e \in Registered :
            Cardinality(DuePropsOf(e)) >= 2 => ranInFlush[e] = 1 /\ microtasks = 0
BatchDedupWitness ==
    /\ FlushDone
    /\ \E e \in Registered : Cardinality(DuePropsOf(e)) >= 2 /\ ranInFlush[e] = 1

\* C2: an effect that reads one property at the end of a path is pending
\* exactly when the burst changed that property (or replaced a record on the
\* path), never because another property of the same record changed, and the
\* flush runs exactly the effects that are due.
PreciseTracking ==
    \A e \in Registered :
        /\ phase = "task" => (InSeq(NOTIFICATION_QUEUE, e) <=> DuePropsOf(e) # {})
        /\ FlushDone => ranInFlush[e] = (IF DuePropsOf(e) # {} THEN 1 ELSE 0)
PreciseTrackingWitness ==
    /\ FlushDone
    /\ \E e1, e2 \in Registered :
        /\ fns[e1].d >= 1 /\ fns[e2].d = fns[e1].d
        /\ fns[e1].reads # fns[e2].reads
        /\ ranInFlush[e1] = 1 /\ ranInFlush[e2] = 0

\* C3: an effect whose disposer was called while it was not pending is never
\* run by a later flush.
DisposalStops ==
    phase = "flush" => \A e \in gone : ranInFlush[e] = 0

ErrorsReported ==
    phase = "flush" => consoleErrors = thrownInFlush

\* C6: a write that stores under a key the value the key already holds,
\* primitive or record, leaves the pending set alone and schedules nothing.
Quiet ==
    /\ NOTIFICATION_QUEUE' = NOTIFICATION_QUEUE
    /\ NOTIFICATION_FLUSH_PENDING' = NOTIFICATION_FLUSH_PENDING
    /\ microtasks' = microtasks
NoOpWriteSilent ==
    [][/\ \A d \in 0..MaxDepth, k \in Keys : SetProp(d, k, vals[d][k]) => Quiet
       /\ \A d \in 0..MaxDepth : SelfAssign(d) => Quiet]_vars

\* C7: two reads of the same nested record, with no write between them,
\* return the same wrapper.
IdentityStable ==
    \A i, j \in DOMAIN held.reads :
        held.reads[i].d = held.reads[j].d => held.reads[i].ref = held.reads[j].ref

\* C8: push of k items on a sequence of length n leaves pending every effect
\* that reads length or one of the indices n..n+k-1.
PushEnqueues ==
    [][\A items \in PushArgs :
        Push(items) =>
            \A e \in Registered :
                fns[e].reads \cap ({"length"} \cup
                    {IdxKey(i) : i \in Len(arr)..(Len(arr) + Len(items) - 1)}) # {}
                => InSeq(NOTIFICATION_QUEUE', e)]_vars

\* C9: shift leaves pending every effect that reads length or one of the
\* remaining indices 0..new length - 1.
ShiftEnqueues ==
    [][Shift =>
        \A e \in Registered :
            fns[e].reads \cap ({"length"} \cup
                {IdxKey(i) : i \in 0..(Len(arr') - 1)}) # {}
            => InSeq(NOTIFICATION_QUEUE', e)]_vars

\* C10: an effect that enters the pending set while the flush is running is
\* not run by that flush, and a further flush is queued for it.
ReentrantDeferred ==
    /\ phase = "flush" => \A e \in enqueuedInFlush : ranInFlush[e] = 0
    /\ FlushDone /\ enqueuedInFlush # {} => microtasks > 0

\* C11: when a flush ends, a live effect that only reads and that the flush
\* ran has read the values its properties now hold, or a further flush is
\* queued: no change made after its run is left without a run to follow.
Stale(e) == \E k \in fns[e].reads : seen[e][k] # vals[0][k]
NoLostInvalidation ==
    FlushDone =>
        \A e \in Registered \cap EFFECT_REGISTRY :
            (fns[e].w = NoKey /\ ranInFlush[e] >= 1 /\ Stale(e)) => microtasks > 0

\* C12: a flush invokes no effect more than once, whatever the burst changed
\* and whatever the effects it runs write; the forEach visits at most as many
\* elements as there are effects.
AtMostOncePerFlush ==
    /\ \A e \in 1..MaxEffects : ranInFlush[e] <= 1
    /\ phase = "flush" => flushPos <= Len(NOTIFICATION_QUEUE)
    /\ Len(NOTIFICATION_QUEUE) <= Len(fns)
AtMostOncePerFlushWitness ==
    /\ FlushDone
    /\ \E e, w \in Registered :
        /\ e < w
        /\ Cardinality(DuePropsOf(e)) >= 2
        /\ fns[w].w \in fns[e].reads
        /\ ranInFlush[e] = 1 /\ ranInFlush[w] = 1
        /\ Stale(e)

\* C13: an effect whose disposer was called is not a member of the pending
\* set (the disposer takes it out, and no notification puts it in), and no
\* flush invokes it.
Disposed == Registered \ EFFECT_REGISTRY
DisposedNotPending ==
    \A e \in Disposed : ~InSeq(NOTIFICATION_QUEUE, e) /\ ranInFlush[e] = 0

\* C14: every property an effect reads when a flush re-runs it is recorded
\* in the dependency graph as an edge of that effect.
EdgeRefresh ==
    phase = "flush" =>
        \A e \in Registered : \A k \in Keys :
            seen[e][k] # NotRead => <<Raw(0), k, e>> \in STATE_TRACKER

\* C15: a call of a non-mutating method through a reactive sequence (one
\* that holds items, so that the step is no other call's) leaves the pending
\* set as it was and schedules no flush.
ReadOnlyQuiet == [][ReadOnlyCall /\ arr # <<>> => Quiet]_vars

\* C16: splice(start, dc, ...items) leaves pending every effect that reads an
\* index of [start, start + dc) or of [start, start + Len(items)), and an
\* effect that reads length alone enters the pending set exactly when dc
\* differs from Len(items).
SpliceIndices(start, dc, items) ==
    {IdxKey(i) : i \in start..(start + dc - 1)}
    \cup {IdxKey(i) : i \in start..(start + Len(items) - 1)}
SpliceEnqueues ==
    [][\A start, dc \in 0..MaxLen, items \in SpliceArgs :
        Splice(start, dc, items) =>
            \A e \in Registered :
                /\ fns[e].reads \cap SpliceIndices(start, dc, items) # {}
                   => InSeq(NOTIFICATION_QUEUE', e)
                /\ (fns[e].reads = {"length"} /\ ~InSeq(NOTIFICATION_QUEUE, e))
                   => (InSeq(NOTIFICATION_QUEUE', e) <=> dc # Len(items))]_vars

\* C17: at most one flush is scheduled or running, the flag is set exactly
\* while one is, and a write that changes a property while none is scheduled
\* leaves exactly one scheduled.
FlushesInFlight == microtasks + (IF phase = "flush" THEN 1 ELSE 0)
OneFlush ==
    /\ FlushesInFlight <= 1
    /\ NOTIFICATION_FLUSH_PENDING <=> FlushesInFlight = 1
SingleScheduledFlush ==
    /\ []OneFlush
    /\ [][\A k \in Keys, v \in Vals :
            SetProp(0, k, v) /\ v # vals[0][k] => microtasks' = 1]_vars
SingleScheduledFlushWitness ==
    /\ phase = "flush"
    /\ enqueuedInFlush # {}
    /\ NOTIFICATION_FLUSH_PENDING
    /\ microtasks = 0

\* C18: an effect whose callback throws leaves the current-effect marker
\* cleared (nothing is rethrown to effect()'s caller), keeps the edges of
\* the reads it made before throwing, and is pending after every later
\* change of such a property and run once by the flush that follows.
FailureContained ==
    /\ CURRENT_EFFECT = Null
    /\ \A e \in Registered :
        fns[e].throws =>
            /\ \A k \in fns[e].reads : <<Raw(0), k, e>> \in STATE_TRACKER
            /\ (phase = "task" /\ DuePropsOf(e) # {}) => InSeq(NOTIFICATION_QUEUE, e)
            /\ (FlushDone /\ DuePropsOf(e) # {}) => ranInFlush[e] = 1
FailureContainedWitness ==
    /\ FlushDone
    /\ CURRENT_EFFECT = Null
    /\ \E e \in Registered :
        /\ fns[e].throws
        /\ DuePropsOf(e) # {}
        /\ ranInFlush[e] = 1
        /\ thrownInFlush >= 1

\* C19: whenever the pending set is non-empty NOTIFICATION_FLUSH_PENDING is
\* true, and the step that ends a flush leaves the pending set empty and the
\* flag false, whether or not a callback threw during the flush.
SchedulerInvariant ==
    /\ [](NOTIFICATION_QUEUE # <<>> => NOTIFICATION_FLUSH_PENDING)
    /\ [][phase = "flush" /\ phase' = "task"
            => NOTIFICATION_QUEUE' = <<>> /\ ~NOTIFICATION_FLUSH_PENDING']_vars
SchedulerInvariantWitness ==
    /\ FlushDone
    /\ thrownInFlush >= 1
    /\ NOTIFICATION_QUEUE # <<>>
    /\ NOTIFICATION_FLUSH_PENDING

\* C20: the current-effect slot is null once effect() has returned, also
\* when it was called by a running callback; the edges of an effect are
\* those of the reads its callback made in its initial run before it called
\* effect() itself: the reads that follow the inner call add no edge, and
\* the inner callback's reads are edges of the inner effect alone.
EdgesOf(e) == {k \in Keys : <<Raw(0), k, e>> \in STATE_TRACKER}
NestedRegistration ==
    /\ CURRENT_EFFECT = Null
    /\ \A e \in Registered : EdgesOf(e) = fns[e].reads
NestedRegistrationWitness ==
    \E e \in Registered :
        /\ fns[e].nest # {}
        /\ fns[e].post \ fns[e].reads # {}
        /\ fns[e].nest \ fns[e].reads # {}
        /\ e + 1 \in Registered
        /\ EdgesOf(e) = fns[e].reads
        /\ EdgesOf(e + 1) = fns[e].nest
====
